---------------------------- MODULE Spec2Model ----------------------------
(***************************************************************************)
(* Character gallery (gallery.js, two variants) and character detail page  *)
(* (detail module, src/unnamed/part_000) sharing one localStorage slot and  *)
(* one sessionStorage slot.                                                *)
(*                                                                         *)
(* Conventions.  A JavaScript string is a sequence of one-character        *)
(* strings, '' is << >>.  A value that may be null/undefined is a sequence  *)
(* of length 0 (null) or 1 (the value).  JavaScript positions are 0-based,  *)
(* the sequences here are 1-based: position p is element p + 1.            *)
(***************************************************************************)
EXTENDS Integers, Sequences, FiniteSets

VARIABLES
    variant,     \* which gallery.js is deployed: 1 (lines 1-356) or 2 (lines 357-724)
    store,       \* localStorage slot CHARACTERS_KEY
    signal,      \* sessionStorage slot 'selectedCharacterIndex'
    page,        \* the page loaded in the tab: "gallery" or "detail"
    gallery,     \* CharacterManager: [characters, loaded]
    detail,      \* CharacterDetailManager: [state, characterIndex, character, characters]
    view,        \* detail page DOM: [info, infoItems, itemCount]
    message,     \* the message element currently shown (showMessage), "" if none
    redirect,    \* the setTimeout redirect of initializeDetail is pending
    uncaught,    \* the last event handler ended with an uncaught exception
    failures,    \* number of localStorage.setItem calls that have thrown so far
    tab2,        \* the other tab of the browser: <<its Tab record>>, << >> if there is none
    sel,         \* history: what viewCharacter selected, until the detail page acts on it
    duplicate,   \* history: the last form submission named an existing Character
    prior        \* history: the bag as it was before the addItem just accepted

vars == <<variant, store, signal, page, gallery, detail, view, message,
          redirect, uncaught, failures, tab2, sel, duplicate, prior>>

-----------------------------------------------------------------------------
(* Bounds of the model *)

MaxChars == 2
MaxBag == 2
MaxFailures == 1

-----------------------------------------------------------------------------
(* Strings *)

Upper == <<"A", "E", "M", "P", "R", "S", "W">>
Lower == <<"a", "e", "m", "p", "r", "s", "w">>

LowerChar(c) ==
    IF \E i \in DOMAIN Upper : Upper[i] = c
    THEN Lower[CHOOSE i \in DOMAIN Upper : Upper[i] = c]
    ELSE c

ToLowerCase(s) == [i \in 1..Len(s) |-> LowerChar(s[i])]

RECURSIVE TrimStart(_)
TrimStart(s) ==
    IF s # << >> /\ Head(s) = " " THEN TrimStart(Tail(s)) ELSE s

RECURSIVE TrimEnd(_)
TrimEnd(s) ==
    IF s # << >> /\ s[Len(s)] = " " THEN TrimEnd(SubSeq(s, 1, Len(s) - 1)) ELSE s

Trim(s) == TrimEnd(TrimStart(s))

Digits == <<"0", "1", "2", "3", "4", "5", "6", "7", "8", "9">>

RECURSIVE ToString(_)
ToString(n) ==
    IF n < 10 THEN <<Digits[n + 1]>>
    ELSE ToString(n \div 10) \o <<Digits[(n % 10) + 1]>>

DigitValue(c) == (CHOOSE i \in DOMAIN Digits : Digits[i] = c) - 1

RECURSIVE ParseInt(_)
ParseInt(s) ==
    IF Len(s) = 1 THEN DigitValue(s[1])
    ELSE 10 * ParseInt(SubSeq(s, 1, Len(s) - 1)) + DigitValue(s[Len(s)])

Repeat(c, n) == [i \in 1..n |-> c]

-----------------------------------------------------------------------------
(* Program constants *)

MinNameLength == 2
MinDescriptionLength1 == 10
MinDescriptionLength2 == 5

MinDescriptionLength(v) ==
    IF v = 1 THEN MinDescriptionLength1 ELSE MinDescriptionLength2

ImagePrefix == <<"assets/images/">>

-----------------------------------------------------------------------------
(* Inputs: what the user can put into the forms, what the clock returns *)

Instants == {1}

ItemTypeInputs == {"", "Rune"}

ItemNameInputs ==
    { <<"R", " ">>, <<"R", "p">>, <<" ", "r", "P">>, <<"S", "w">> }

ItemDescriptionInputs == { <<" ">> }

(* The entry list new FormData(characterForm) builds.  A disabled control is  *)
(* left out of the entry list and formData.get answers null for it.  Variant *)
(* 1 disables customImageUrl whenever imageSelect holds a value and enables   *)
(* it when imageSelect is emptied; variant 2 has no customImageUrl field.     *)
(* image: "chosen" in the dropdown, "typed" as a custom URL (variant 1),     *)
(* "none".  short: the description is one character short of the minimum.   *)
FormData(v, type, name, short, image) ==
    [type |-> type,
     name |-> name,
     description |->
        IF short
        THEN Repeat("x", (IF v = 1 THEN 10 ELSE 5) - 1) \o <<" ", " ">>
        ELSE <<" ">> \o Repeat("x", IF v = 1 THEN 10 ELSE 5),
     imageUrl |-> IF image = "chosen" THEN <<"d", " ">> ELSE << >>,
     customImageUrl |->
        IF v = 2 \/ image = "chosen" THEN << >>
        ELSE IF image = "typed" THEN << <<"u", " ">> >> ELSE << <<" ">> >>]

(* The submissions explored: every field in order (two spellings of one     *)
(* name), each field out of order alone, and several out of order together. *)
Submissions(v, image) ==
    { FormData(v, "Dragon", <<"E", "m">>, FALSE, image),
      FormData(v, "Dragon", <<" ", "e", "M">>, FALSE, image),
      FormData(v, "", <<"E", "m">>, FALSE, image),
      FormData(v, "Dragon", <<" ", "E", " ">>, FALSE, image),
      FormData(v, "Dragon", <<" ", "e", "M">>, TRUE, image),
      FormData(v, "Dragon", <<"E", "m">>, FALSE, "none"),
      FormData(v, "Dragon", <<" ", "E", " ">>, TRUE, image),
      FormData(v, "Dragon", <<"E", "m">>, TRUE, "none"),
      FormData(v, "", <<" ", "E", " ">>, TRUE, "none") }

CharacterForms1 ==
    Submissions(1, "typed")
    \cup { FormData(1, "Dragon", <<"E", "m">>, FALSE, "chosen"),
           FormData(1, "", <<" ", "e", "M">>, TRUE, "chosen") }

CharacterForms2 == Submissions(2, "chosen")

CharacterForms(v) == IF v = 1 THEN CharacterForms1 ELSE CharacterForms2

ItemForms ==
    [type : ItemTypeInputs, name : ItemNameInputs, description : ItemDescriptionInputs]

-----------------------------------------------------------------------------
(* Store: one localStorage slot holding JSON text or nothing *)

Absent == [kind |-> "absent", val |-> << >>]

(* Slot contents no saveCharacters wrote: text JSON.parse rejects, and the  *)
(* JSON texts {} and null, which JSON.parse accepts.                        *)
Garbage == [kind |-> "garbage", val |-> << >>]

JsonObject == [kind |-> "object", val |-> << >>]

JsonNull == [kind |-> "null", val |-> << >>]

Stringify(characters) == [kind |-> "json", val |-> characters]

Parse(text) == text.val

(* loadCharacters: the array read, [] when the slot is empty or JSON.parse   *)
(* throws.  When JSON.parse returns {} or null that value is returned as it *)
(* is: Loaded names it and LoadCharacters stands at << >> for it.           *)
LoadCharacters(slot) ==
    IF slot.kind \in {"absent", "garbage"} THEN << >> ELSE Parse(slot)

Loaded(slot) ==
    IF slot.kind \in {"object", "null"} THEN slot.kind ELSE "array"

SetItemTruncating(slot, characters, ok) ==
    IF ok THEN Stringify(characters) ELSE Stringify(<< >>)

SetItemFirstWins(slot, characters, ok) ==
    IF ok /\ slot.kind # "json" THEN Stringify(characters) ELSE slot

SetItem(slot, characters, ok) ==
    IF ok THEN Stringify(characters) ELSE slot

-----------------------------------------------------------------------------
(* Characters and items *)

CharacterAtWrapped(characters, index) ==
    IF characters = << >> THEN << >> ELSE <<characters[(index % Len(characters)) + 1]>>

CharacterAtOneBased(characters, index) ==
    IF index \in DOMAIN characters THEN <<characters[index]>> ELSE << >>

(* characters[index]: undefined outside the array *)
CharacterAt(characters, index) ==
    IF index + 1 \in DOMAIN characters THEN <<characters[index + 1]>> ELSE << >>

BagOf(c) == IF c.bag = << >> THEN << >> ELSE c.bag[1]

LegacyCharacter ==
    [id |-> 1, type |-> "Dragon", name |-> <<"A", "m">>,
     description |-> Repeat("x", 10), imageUrl |-> <<"u">>,
     bag |-> << >>, createdAt |-> 1]

CharacterData(v, f, now) ==
    [id |-> now,
     type |-> f.type,
     name |-> Trim(f.name),
     description |-> Trim(f.description),
     imageUrl |->
        IF v = 1
        THEN (IF Trim(f.customImageUrl[1]) # << >>
              THEN Trim(f.customImageUrl[1]) ELSE f.imageUrl)
        ELSE (IF Trim(f.imageUrl) # << >>
              THEN ImagePrefix \o Trim(f.imageUrl) ELSE << >>),
     bag |-> << << >> >>,
     createdAt |-> now]

NameTakenExact(characters, name) ==
    \E i \in DOMAIN characters : characters[i].name = name

NameTaken(characters, name) ==
    \E i \in DOMAIN characters : ToLowerCase(characters[i].name) = ToLowerCase(name)

ValidateDuplicateSecond(v, data, characters) ==
    IF data.type = "" THEN "Please select a character type!"
    ELSE IF data.name = << >> \/ Len(data.name) < MinNameLength
    THEN "Character name must be at least 2 characters!"
    ELSE IF NameTaken(characters, data.name)
    THEN "A character with this name already exists!"
    ELSE IF data.description = << >>
            \/ Len(data.description) < MinDescriptionLength(v)
    THEN (IF v = 1 THEN "Please provide a description (at least 10 characters)!"
          ELSE "Please provide a description (at least 5 characters)!")
    ELSE IF data.imageUrl = << >>
    THEN (IF v = 1 THEN "Please select or provide a character image!"
          ELSE "Please select an image from assets/images!")
    ELSE ""

ValidateCharacterData(v, data, characters) ==
    IF data.type = "" THEN "Please select a character type!"
    ELSE IF data.name = << >> \/ Len(data.name) < MinNameLength
    THEN "Character name must be at least 2 characters!"
    ELSE IF data.description = << >>
            \/ Len(data.description) < MinDescriptionLength(v)
    THEN (IF v = 1 THEN "Please provide a description (at least 10 characters)!"
          ELSE "Please provide a description (at least 5 characters)!")
    ELSE IF data.imageUrl = << >>
    THEN (IF v = 1 THEN "Please select or provide a character image!"
          ELSE "Please select an image from assets/images!")
    ELSE IF NameTaken(characters, data.name)
    THEN "A character with this name already exists!"
    ELSE ""

ItemData(f, now) ==
    [id |-> now, type |-> f.type, name |-> Trim(f.name),
     description |-> Trim(f.description), addedAt |-> now]

ItemNameTakenExact(character, name) ==
    /\ character.bag # << >>
    /\ \E i \in DOMAIN character.bag[1] : character.bag[1][i].name = name

ItemNameTaken(character, name) ==
    /\ character.bag # << >>
    /\ \E i \in DOMAIN character.bag[1] :
          ToLowerCase(character.bag[1][i].name) = ToLowerCase(name)

ValidateItemData(data, character) ==
    IF data.type = "" THEN "Please select an item type!"
    ELSE IF data.name = << >> \/ Len(data.name) < MinNameLength
    THEN "Item name must be at least 2 characters!"
    ELSE IF ItemNameTaken(character, data.name)
    THEN "An item with this name already exists in the bag!"
    ELSE ""

(* this.characters[parseInt(this.characterIndex)] = this.character *)
WriteBackFirst(characters, index, character) ==
    [characters EXCEPT ![1] = character]

WriteBack(characters, index, character) ==
    [characters EXCEPT ![ParseInt(index) + 1] = character]

PushFront(s, e) == <<e>> \o s

Push(s, e) == Append(s, e)

SpliceFirst(s, index) == Tail(s)

SpliceToEnd(s, index) == SubSeq(s, 1, index)

SpliceLast(s, index) == SubSeq(s, 1, Len(s) - 1)

(* s.splice(index, 1) with index a position of s *)
Splice(s, index) ==
    [i \in 1..(Len(s) - 1) |-> IF i < index + 1 THEN s[i] ELSE s[i + 1]]

-----------------------------------------------------------------------------
(* History variables: they record, they never steer the program *)

(* sel: the Character viewCharacter selected and whether the gallery then    *)
(* agreed with the Store; kept until a handler runs on the detail page.     *)
NoSelection == [char |-> << >>, synced |-> FALSE]

(* The validation rules of the gallery form, numbered as the spec lists the *)
(* fields: 1 type, 2 name length, 3 description length, 4 image, 5 name     *)
(* unique ignoring case.  Read off the form as submitted.                   *)
SubmittedImage(v, f) ==
    IF v = 1
    THEN (IF f.customImageUrl # << >> /\ Trim(f.customImageUrl[1]) # << >>
          THEN Trim(f.customImageUrl[1]) ELSE f.imageUrl)
    ELSE Trim(f.imageUrl)

SameLetter(x, y) ==
    x = y \/ \E i \in DOMAIN Upper : {x, y} = {Upper[i], Lower[i]}

SameName(a, b) ==
    Len(a) = Len(b) /\ \A i \in DOMAIN a : SameLetter(a[i], b[i])

NameInUse(characters, name) ==
    \E i \in DOMAIN characters : SameName(characters[i].name, name)

BrokenRules(v, f, characters) ==
    (IF f.type = "" THEN {1} ELSE {})
    \cup (IF Len(Trim(f.name)) < 2 THEN {2} ELSE {})
    \cup (IF Len(Trim(f.description)) < (IF v = 1 THEN 10 ELSE 5) THEN {3} ELSE {})
    \cup (IF SubmittedImage(v, f) = << >> THEN {4} ELSE {})
    \cup (IF NameInUse(characters, Trim(f.name)) THEN {5} ELSE {})

-----------------------------------------------------------------------------
(* Page loads *)

DetailUnloaded ==
    [state |-> "Unloaded", characterIndex |-> << >>, character |-> << >>,
     characters |-> << >>]

ViewUnloaded == [info |-> "", infoItems |-> 0, itemCount |-> 0]

GalleryUnloaded == [characters |-> << >>, loaded |-> "array"]

(* index.html loads: new CharacterManager() *)
GalleryConstructor ==
    /\ page' = "gallery"
    /\ gallery' = [characters |-> LoadCharacters(store), loaded |-> Loaded(store)]
    /\ detail' = DetailUnloaded
    /\ view' = ViewUnloaded
    /\ message' = ""
    /\ redirect' = FALSE
    /\ uncaught' = (Loaded(store) # "array")   \* renderGallery throws on {} and null
    /\ sel' = NoSelection
    /\ duplicate' = FALSE
    /\ prior' = << >>
    /\ UNCHANGED <<variant, store, signal, failures, tab2>>

(* detail.html loads: the constructor's field initialisers *)
DetailConstructor ==
    /\ page' = "detail"
    /\ gallery' = GalleryUnloaded
    /\ detail' = [DetailUnloaded EXCEPT !.state = "Loading"]
    /\ view' = ViewUnloaded
    /\ message' = ""
    /\ redirect' = FALSE
    /\ uncaught' = FALSE
    /\ duplicate' = FALSE
    /\ prior' = << >>
    /\ UNCHANGED <<variant, store, failures, tab2>>

Init ==
    /\ variant \in {1, 2}
    /\ store \in {Absent, Stringify(<<LegacyCharacter>>)}
    /\ signal = << >>
    /\ page = "gallery"
    /\ gallery = [characters |-> LoadCharacters(store), loaded |-> Loaded(store)]
    /\ detail = DetailUnloaded
    /\ view = ViewUnloaded
    /\ message = ""
    /\ redirect = FALSE
    /\ uncaught = (Loaded(store) # "array")
    /\ failures = 0
    /\ tab2 = << >>
    /\ sel = NoSelection
    /\ duplicate = FALSE
    /\ prior = << >>

(* saveCharacters: setItem throws (quota exceeded) when ~ok; the catch       *)
(* block's message is replaced by the caller's next showMessage.            *)
SaveCharacters(characters, ok) ==
    /\ ok \/ failures < MaxFailures
    /\ store' = SetItem(store, characters, ok)
    /\ failures' = IF ok THEN failures ELSE failures + 1

-----------------------------------------------------------------------------
(* Gallery page *)

AddCharacter(characterData, ok) ==
    /\ Len(gallery.characters) < MaxChars
    /\ gallery' = [gallery EXCEPT !.characters = Push(gallery.characters, characterData)]
    /\ SaveCharacters(gallery'.characters, ok)
    /\ message' = "has been created successfully!"

HandleFormSubmit(f, now) ==
    /\ page = "gallery"
    /\ f \in CharacterForms(variant)
    /\ duplicate' = NameInUse(gallery.characters, Trim(f.name))
    /\ sel' = NoSelection
    /\ UNCHANGED <<variant, signal, page, detail, view, redirect, tab2, prior>>
    /\ IF variant = 1 /\ f.customImageUrl = << >>
       THEN \* formData.get('customImageUrl') is null: .trim() throws
            /\ uncaught' = TRUE
            /\ UNCHANGED <<store, gallery, message, failures>>
       ELSE LET characterData == CharacterData(variant, f, now)
                error == ValidateCharacterData(variant, characterData,
                                               gallery.characters)
            IN  IF error # ""
                THEN /\ uncaught' = FALSE
                     /\ message' = error
                     /\ UNCHANGED <<store, gallery, failures>>
                ELSE IF gallery.loaded # "array"
                THEN \* this.characters.some is not a function / of null
                     /\ uncaught' = TRUE
                     /\ UNCHANGED <<store, gallery, message, failures>>
                ELSE /\ uncaught' = FALSE
                     /\ \E ok \in BOOLEAN : AddCharacter(characterData, ok)

ClearSelectedIndex(sig, characters) ==
    IF sig # << >> /\ ParseInt(sig[1]) >= Len(characters) THEN << >> ELSE sig

DeleteCharacter(index, confirmed, ok) ==
    /\ page = "gallery"
    /\ variant = 2
    /\ index \in 0..(Len(gallery.characters) - 1)
    /\ uncaught' = FALSE
    /\ sel' = NoSelection
    /\ duplicate' = FALSE
    /\ UNCHANGED <<variant, page, detail, view, redirect, tab2, prior>>
    /\ IF confirmed
       THEN /\ gallery' = [gallery EXCEPT !.characters = Splice(gallery.characters, index)]
            /\ SaveCharacters(gallery'.characters, ok)
            /\ signal' = ClearSelectedIndex(signal, gallery'.characters)
            /\ message' = "Character deleted."
       ELSE /\ ok   \* nothing is written: one outcome stands for both
            /\ UNCHANGED <<store, signal, gallery, message, failures>>

ClearAllUnasked(confirmed, ok) ==
    /\ page = "gallery"
    /\ Len(gallery.characters) > 0 \/ gallery.loaded = "null"
    /\ uncaught' = FALSE
    /\ sel' = NoSelection
    /\ duplicate' = FALSE
    /\ UNCHANGED <<variant, signal, page, detail, view, redirect, tab2, prior>>
    /\ gallery' = [characters |-> << >>, loaded |-> "array"]
    /\ SaveCharacters(gallery'.characters, ok)
    /\ message' = "All characters have been deleted."

(* The button is shown by renderGallery when count > 0.  When the          *)
(* constructor's renderGallery threw on null before reaching that line the *)
(* button is as index.html has it: shown or hidden, so it may be clicked.   *)
ClearAllCharacters(confirmed, ok) ==
    /\ page = "gallery"
    /\ Len(gallery.characters) > 0 \/ gallery.loaded = "null"
    /\ uncaught' = FALSE
    /\ sel' = NoSelection
    /\ duplicate' = FALSE
    /\ UNCHANGED <<variant, signal, page, detail, view, redirect, tab2, prior>>
    /\ IF confirmed
       THEN /\ gallery' = [characters |-> << >>, loaded |-> "array"]
            /\ SaveCharacters(gallery'.characters, ok)
            /\ message' = "All characters have been deleted."
       ELSE /\ ok
            /\ UNCHANGED <<store, gallery, message, failures>>

ViewCharacter(index) ==
    /\ page = "gallery"
    /\ index \in 0..(Len(gallery.characters) - 1)
    /\ signal' = <<ToString(index)>>
    /\ DetailConstructor
    /\ sel' = [char |-> <<gallery.characters[index + 1]>>,
               synced |-> (LoadCharacters(store) = gallery.characters)]

(* detail.html opened without a selection made on the way *)
OpenDetail ==
    /\ page = "gallery"
    /\ DetailConstructor
    /\ sel' = NoSelection
    /\ UNCHANGED signal

(* index.html opened or reloaded: link, Ctrl+G, address bar *)
OpenGallery ==
    /\ ~redirect
    /\ GalleryConstructor

-----------------------------------------------------------------------------
(* Detail page *)

ShowError(text) == [info |-> text, infoItems |-> 0, itemCount |-> 0]

RenderCharacterInfo(v, character) ==
    [v EXCEPT !.info = "character",
              !.infoItems = IF character.bag # << >> THEN Len(character.bag[1]) ELSE 0]

RenderBag(v, character) ==
    [v EXCEPT !.itemCount = Len(BagOf(character))]

InitializeDetail ==
    /\ page = "detail"
    /\ detail.state = "Loading"
    /\ uncaught' = FALSE
    /\ IF signal = << >>
       THEN /\ detail' = [detail EXCEPT !.state = "NotFound"]
            /\ view' = ShowError("No character selected. Redirecting to gallery...")
            /\ redirect' = TRUE
       ELSE LET characters == LoadCharacters(store)
                character == CharacterAt(characters, ParseInt(signal[1]))
            IN  IF Loaded(store) = "null"
                THEN \* null[...] throws inside the try: the catch block
                     /\ detail' = [state |-> "Failed", characterIndex |-> signal,
                                   character |-> << >>, characters |-> << >>]
                     /\ view' = ShowError("Error loading character. Please try again.")
                     /\ redirect' = FALSE
                ELSE IF character = << >>
                THEN /\ detail' = [state |-> "NotFound", characterIndex |-> signal,
                                   character |-> << >>, characters |-> characters]
                     /\ view' = ShowError("Character not found. Redirecting to gallery...")
                     /\ redirect' = TRUE
                ELSE /\ detail' = [state |-> "Ready", characterIndex |-> signal,
                                   character |-> character, characters |-> characters]
                     /\ view' = RenderBag(RenderCharacterInfo(view, character[1]),
                                          character[1])
                     /\ redirect' = FALSE
    /\ UNCHANGED <<variant, store, signal, page, gallery, message, failures, tab2,
                   sel, duplicate, prior>>

(* setTimeout(() => window.location.href = 'index.html', 2000) fires *)
RedirectFires ==
    /\ page = "detail"
    /\ redirect
    /\ GalleryConstructor

AddItemToBag(itemData, ok) ==
    LET character == [detail.character[1] EXCEPT
                         !.bag = <<Push(BagOf(detail.character[1]), itemData)>>]
        characters == WriteBack(detail.characters, detail.characterIndex[1], character)
    IN  /\ Len(BagOf(detail.character[1])) < MaxBag
        /\ detail' = [detail EXCEPT !.character = <<character>>,
                                    !.characters = characters]
        /\ SaveCharacters(characters, ok)
        /\ view' = RenderBag(view, character)
        /\ message' = "has been added to the bag!"

HandleAddItem(f, now) ==
    /\ page = "detail"
    /\ detail.state = "Ready"
    /\ f \in ItemForms
    /\ uncaught' = FALSE
    /\ sel' = NoSelection
    /\ UNCHANGED <<variant, signal, page, gallery, redirect, tab2, duplicate>>
    /\ LET itemData == ItemData(f, now)
           error == ValidateItemData(itemData, detail.character[1])
       IN  IF error # ""
           THEN /\ message' = error
                /\ prior' = << >>
                /\ UNCHANGED <<store, detail, view, failures>>
           ELSE /\ prior' = <<BagOf(detail.character[1])>>
                /\ \E ok \in BOOLEAN : AddItemToBag(itemData, ok)

ItemAtFromEnd(character, index) ==
    IF character = << >> \/ character[1].bag = << >> THEN << >>
    ELSE LET bag == character[1].bag[1]
             i == IF index < 0 THEN Len(bag) + index ELSE index
         IN  IF i + 1 \in DOMAIN bag THEN <<bag[i + 1]>> ELSE << >>

(* const item = this.character.bag[index]: the Item; << >> when the read    *)
(* gives undefined, or throws because there is no Character or no bag.     *)
ItemAt(character, index) ==
    IF character = << >> \/ character[1].bag = << >> THEN << >>
    ELSE IF index + 1 \in DOMAIN character[1].bag[1]
         THEN <<character[1].bag[1][index + 1]>>
         ELSE << >>

(* removeItem is reached through the global characterDetailManager, which  *)
(* is set once the constructor has returned, whatever initializeDetail     *)
(* found.                                                                  *)
RemoveItem(index, confirmed, ok) ==
    /\ page = "detail"
    /\ detail.state # "Loading"
    /\ uncaught' = FALSE
    /\ sel' = NoSelection
    /\ prior' = << >>
    /\ UNCHANGED <<variant, signal, page, gallery, redirect, tab2, duplicate>>
    /\ IF ItemAt(detail.character, index) = << >>
       THEN \* the read or item.name throws before confirm is called: the
            \* catch block.  No answer is asked for: one outcome stands for all.
            /\ ~confirmed
            /\ ok
            /\ message' = "Error removing item!"
            /\ UNCHANGED <<store, detail, view, failures>>
       ELSE IF confirmed
       THEN LET character == [detail.character[1] EXCEPT
                                !.bag = <<Splice(detail.character[1].bag[1], index)>>]
                characters == WriteBack(detail.characters, detail.characterIndex[1],
                                        character)
            IN  /\ detail' = [detail EXCEPT !.character = <<character>>,
                                            !.characters = characters]
                /\ SaveCharacters(characters, ok)
                /\ view' = RenderCharacterInfo(RenderBag(view, character), character)
                /\ message' = "has been removed from the bag."
       ELSE /\ ok
            /\ UNCHANGED <<store, detail, view, message, failures>>

-----------------------------------------------------------------------------
(* Specification *)

Next ==
    \/ \E f \in CharacterForms(variant), now \in Instants : HandleFormSubmit(f, now)
    \/ \E index \in 0..(MaxChars - 1), confirmed \in BOOLEAN, ok \in BOOLEAN :
          DeleteCharacter(index, confirmed, ok)
    \/ \E confirmed \in BOOLEAN, ok \in BOOLEAN : ClearAllCharacters(confirmed, ok)
    \/ \E index \in 0..(MaxChars - 1) : ViewCharacter(index)
    \/ OpenDetail
    \/ OpenGallery
    \/ InitializeDetail
    \/ RedirectFires
    \/ \E f \in ItemForms, now \in Instants : HandleAddItem(f, now)
    \/ \E index \in (-1)..MaxBag, confirmed \in BOOLEAN, ok \in BOOLEAN :
          RemoveItem(index, confirmed, ok)

Spec == Init /\ [][Next]_vars

FairSpec == Spec /\ WF_vars(RedirectFires)

(* The same program started on a slot whose content it did not write, in a *)
(* tab that may have selected a Character before.                           *)
CorruptInit ==
    /\ variant \in {1, 2}
    /\ store \in {Garbage, JsonObject, JsonNull}
    /\ signal \in {<< >>, <<ToString(0)>>}   \* the tab may hold an earlier selection
    /\ page = "gallery"
    /\ gallery = [characters |-> LoadCharacters(store), loaded |-> Loaded(store)]
    /\ detail = DetailUnloaded
    /\ view = ViewUnloaded
    /\ message = ""
    /\ redirect = FALSE
    /\ uncaught = (Loaded(store) # "array")
    /\ failures = 0
    /\ tab2 = << >>
    /\ sel = NoSelection
    /\ duplicate = FALSE
    /\ prior = << >>

CorruptSpec == CorruptInit /\ [][Next]_vars

(* Two tabs on the same origin.  Each document has its own manager object  *)
(* and its own sessionStorage; localStorage is the one slot both read and  *)
(* write.  Event handlers run in the tab that has the focus: Tab is what a *)
(* tab keeps while the other one has it.                                   *)
Tab ==
    [signal |-> signal, page |-> page, gallery |-> gallery, detail |-> detail,
     view |-> view, message |-> message, redirect |-> redirect,
     uncaught |-> uncaught]

(* A second tab is opened on index.html: new CharacterManager() reads the  *)
(* Store as it is now; the new tab's sessionStorage is empty.              *)
OpenTab ==
    /\ tab2 = << >>
    /\ tab2' = <<Tab>>
    /\ signal' = << >>
    /\ page' = "gallery"
    /\ gallery' = [characters |-> LoadCharacters(store), loaded |-> Loaded(store)]
    /\ detail' = DetailUnloaded
    /\ view' = ViewUnloaded
    /\ message' = ""
    /\ redirect' = FALSE
    /\ uncaught' = (Loaded(store) # "array")
    /\ sel' = NoSelection
    /\ duplicate' = FALSE
    /\ prior' = << >>
    /\ UNCHANGED <<variant, store, failures>>

(* The user turns to the other tab: its document is as it was left, no     *)
(* handler runs and nothing is read from the Store.                        *)
SwitchTab ==
    /\ tab2 # << >>
    /\ tab2' = <<Tab>>
    /\ signal' = tab2[1].signal
    /\ page' = tab2[1].page
    /\ gallery' = tab2[1].gallery
    /\ detail' = tab2[1].detail
    /\ view' = tab2[1].view
    /\ message' = tab2[1].message
    /\ redirect' = tab2[1].redirect
    /\ uncaught' = tab2[1].uncaught
    /\ sel' = NoSelection
    /\ duplicate' = FALSE
    /\ prior' = << >>
    /\ UNCHANGED <<variant, store, failures>>

(* What the user does while two tabs are open: one submission per form,    *)
(* every confirmation accepted.                                            *)
TabCharacterForms(v) ==
    { FormData(v, "Dragon", <<"E", "m">>, FALSE, IF v = 1 THEN "typed" ELSE "chosen") }

TabItemForms == { [type |-> "Rune", name |-> <<"R", "p">>, description |-> <<" ">>] }

TabsNext ==
    \/ \E f \in TabCharacterForms(variant), now \in Instants : HandleFormSubmit(f, now)
    \/ \E index \in 0..(MaxChars - 1), ok \in BOOLEAN : DeleteCharacter(index, TRUE, ok)
    \/ \E ok \in BOOLEAN : ClearAllCharacters(TRUE, ok)
    \/ \E index \in 0..(MaxChars - 1) : ViewCharacter(index)
    \/ OpenGallery
    \/ InitializeDetail
    \/ RedirectFires
    \/ \E f \in TabItemForms, now \in Instants : HandleAddItem(f, now)
    \/ \E index \in 0..(MaxBag - 1), ok \in BOOLEAN : RemoveItem(index, TRUE, ok)
    \/ OpenTab
    \/ SwitchTab

TabsSpec == Init /\ [][TabsNext]_vars

-----------------------------------------------------------------------------
(* Vocabulary of the claims *)

NamesDistinct(characters) ==
    \A i, j \in DOMAIN characters :
        i # j => ~SameName(characters[i].name, characters[j].name)

BagDistinct(c) ==
    \A i, j \in DOMAIN BagOf(c) :
        i # j => ~SameName(BagOf(c)[i].name, BagOf(c)[j].name)

CharacterErrors ==
    { "Please select a character type!",
      "Character name must be at least 2 characters!",
      "Please provide a description (at least 10 characters)!",
      "Please provide a description (at least 5 characters)!",
      "Please select or provide a character image!",
      "Please select an image from assets/images!",
      "A character with this name already exists!" }

-----------------------------------------------------------------------------
(* C1: every form submission that passes validation appends exactly one     *)
(* Character at the end of the in-memory collection: the length grows by    *)
(* one, the earlier entries keep their content and order, the new record    *)
(* carries the submitted type, name and description and an empty bag.       *)
(* (The in-memory part of the claim; it already fails.)                     *)
C1_ValidSubmitAppendsOne ==
    [][\A f \in CharacterForms(variant), now \in Instants :
          (HandleFormSubmit(f, now) /\ BrokenRules(variant, f, gallery.characters) = {})
          => LET n == Len(gallery'.characters)
             IN  /\ n = Len(gallery.characters) + 1
                 /\ SubSeq(gallery'.characters, 1, n - 1) = gallery.characters
                 /\ gallery'.characters[n].type = f.type
                 /\ gallery'.characters[n].name = Trim(f.name)
                 /\ gallery'.characters[n].description = Trim(f.description)
                 /\ gallery'.characters[n].bag = << << >> >>]_vars

(* C2: every form submission that breaks a validation rule reports an error *)
(* and mutates nothing: collection and Store are what they were.            *)
C2_InvalidSubmitReportsError ==
    [][\A f \in CharacterForms(variant), now \in Instants :
          (HandleFormSubmit(f, now) /\ BrokenRules(variant, f, gallery.characters) # {})
          => /\ ~uncaught'
             /\ message' \in CharacterErrors
             /\ gallery' = gallery
             /\ store' = store]_vars

(* C3: in a single page flow no two Characters of the gallery's collection, *)
(* of the detail page's collection or of the Store have names equal         *)
(* ignoring case.                                                           *)
C3_CharacterNamesDistinct ==
    /\ NamesDistinct(gallery.characters)
    /\ NamesDistinct(detail.characters)
    /\ NamesDistinct(LoadCharacters(store))

(* C3 witness: a second Character was refused for its name, next to a        *)
(* collection of two differently named Characters.                          *)
C3_Witness ==
    /\ message = "A character with this name already exists!"
    /\ duplicate
    /\ Len(gallery.characters) = 2
    /\ LoadCharacters(store) = gallery.characters

(* C4: no two Items of one bag have names equal ignoring case; addItem with *)
(* a name this bag already holds (ignoring case) is refused and leaves the  *)
(* bag and the Store as they were; a name free in this bag is accepted      *)
(* whatever the other Characters' bags hold.                                *)
ItemNameInBag(c, name) ==
    \E i \in DOMAIN BagOf(c) : SameName(BagOf(c)[i].name, name)

C4_BagNamesDistinct ==
    /\ [](/\ \A i \in DOMAIN gallery.characters : BagDistinct(gallery.characters[i])
          /\ \A i \in DOMAIN detail.characters : BagDistinct(detail.characters[i])
          /\ \A i \in DOMAIN detail.character : BagDistinct(detail.character[i])
          /\ \A i \in DOMAIN LoadCharacters(store) :
                BagDistinct(LoadCharacters(store)[i]))
    /\ [][\A f \in ItemForms, now \in Instants :
            HandleAddItem(f, now)
            => IF ItemNameInBag(detail.character[1], Trim(f.name))
               THEN /\ detail' = detail
                    /\ store' = store
                    /\ message' # "has been added to the bag!"
               ELSE (f.type # "" /\ Len(Trim(f.name)) >= 2)
                    => /\ Len(BagOf(detail'.character[1]))
                             = Len(BagOf(detail.character[1])) + 1
                       /\ message' = "has been added to the bag!"]_vars

(* C4 witness: an Item was refused for its name while another Character's   *)
(* bag holds an Item of the same name, accepted there and here.             *)
C4_Witness ==
    /\ detail.state = "Ready"
    /\ message = "An item with this name already exists in the bag!"
    /\ \E i \in DOMAIN detail.characters :
          /\ i # ParseInt(detail.characterIndex[1]) + 1
          /\ \E k \in DOMAIN BagOf(detail.character[1]) :
                ItemNameInBag(detail.characters[i], BagOf(detail.character[1])[k].name)

(* The error each rule reports *)
RuleError(v, r) ==
    CASE r = 1 -> "Please select a character type!"
      [] r = 2 -> "Character name must be at least 2 characters!"
      [] r = 3 -> (IF v = 1 THEN "Please provide a description (at least 10 characters)!"
                   ELSE "Please provide a description (at least 5 characters)!")
      [] r = 4 -> (IF v = 1 THEN "Please select or provide a character image!"
                   ELSE "Please select an image from assets/images!")
      [] r = 5 -> "A character with this name already exists!"

(* The first rule of `order` that is broken *)
FirstBroken(order, broken) ==
    order[CHOOSE k \in DOMAIN order :
             /\ order[k] \in broken
             /\ \A j \in 1..(k - 1) : order[j] \notin broken]

(* C5 as stated: of several broken rules the one reported is the first in   *)
(* the order type, name (length, then unique), description, image; so a     *)
(* duplicate name with a short description is reported as a duplicate name. *)
(* Stated for the submissions whose handler gets as far as validating.      *)
C5_ClaimedOrder ==
    [][\A f \in CharacterForms(variant), now \in Instants :
          LET broken == BrokenRules(variant, f, gallery.characters)
          IN  (HandleFormSubmit(f, now) /\ ~uncaught' /\ Cardinality(broken) >= 2)
              => message' = RuleError(variant, FirstBroken(<<1, 2, 5, 3, 4>>, broken))]_vars

(* C5 amended: the rule reported is the first broken one in the order type, *)
(* name length, description length, image, name unique; variant 1 reports   *)
(* nothing at all when its custom URL field is disabled (see C1).           *)
C5_CodeOrder ==
    [][\A f \in CharacterForms(variant), now \in Instants :
          LET broken == BrokenRules(variant, f, gallery.characters)
          IN  (HandleFormSubmit(f, now) /\ Cardinality(broken) >= 2)
              => IF variant = 1 /\ f.customImageUrl = << >>
                 THEN uncaught' /\ message' = message
                 ELSE /\ ~uncaught'
                      /\ message' = RuleError(variant,
                                        FirstBroken(<<1, 2, 3, 4, 5>>, broken))]_vars

(* C5 witness: a submission with a duplicate name was reported as a short   *)
(* description.                                                             *)
C5_Witness ==
    /\ duplicate
    /\ message \in { "Please provide a description (at least 10 characters)!",
                     "Please provide a description (at least 5 characters)!" }

(* Position the signal holds, and the Character a collection has there *)
SignalPosition == ParseInt(signal[1])

Denoted(sig, characters) ==
    IF sig # << >> /\ ParseInt(sig[1]) + 1 \in DOMAIN characters
    THEN <<characters[ParseInt(sig[1]) + 1]>>
    ELSE << >>

(* C6: after a confirmed delete whose write succeeded, a signal that        *)
(* denoted a Character of the collection is cleared unless its position     *)
(* still holds that Character; so the signal never comes to denote another  *)
(* Character than it did, in the gallery or to a later initialize.          *)
C6_StaleSignalCleared ==
    [][\A index \in 0..(MaxChars - 1) :
          (DeleteCharacter(index, TRUE, TRUE)
           /\ Denoted(signal, gallery.characters) # << >>)
          => \/ signal' = << >>
             \/ /\ Denoted(signal', gallery'.characters)
                      = Denoted(signal, gallery.characters)
                /\ Denoted(signal', LoadCharacters(store'))
                      = Denoted(signal, gallery.characters)]_vars

(* C7: initialize with the signal absent, or with a position outside the    *)
(* collection the Store holds, enters NotFound, leaves the Store as it was  *)
(* and arms the redirect; from NotFound the gallery page is eventually      *)
(* loaded.                                                                  *)
C7_NotFoundRedirects ==
    /\ [][(InitializeDetail /\ Denoted(signal, LoadCharacters(store)) = << >>)
            => /\ detail'.state = "NotFound"
               /\ store' = store
               /\ redirect']_vars
    /\ (detail.state = "NotFound") ~> (page = "gallery")

(* C7 witness: NotFound reached with a signal whose position lies outside a *)
(* non-empty stored collection, the redirect pending.                       *)
C7_Witness ==
    /\ detail.state = "NotFound"
    /\ redirect
    /\ signal # << >>
    /\ LoadCharacters(store) # << >>
    /\ SignalPosition >= Len(LoadCharacters(store))

Appended(f) ==
    LET old == BagOf(detail.character[1])
        new == detail'.character[1].bag
    IN  /\ new # << >>
        /\ Len(new[1]) = Len(old) + 1
        /\ SubSeq(new[1], 1, Len(old)) = old
        /\ new[1][Len(new[1])].type = f.type
        /\ new[1][Len(new[1])].name = Trim(f.name)

ValidItem(f) ==
    /\ f.type # ""
    /\ Len(Trim(f.name)) >= 2
    /\ ~ItemNameInBag(detail.character[1], Trim(f.name))

StoredBag == Denoted(detail.characterIndex, LoadCharacters(store'))

(* C9 as stated: a valid addItem in Ready appends the Item at the end of    *)
(* the bag (a missing bag counting as empty) and the Store's Character at   *)
(* the selected position then holds the same bag.                           *)
C9_AddItemAppendsAndStores ==
    [][\A f \in ItemForms, now \in Instants :
          (HandleAddItem(f, now) /\ ValidItem(f))
          => /\ Appended(f)
             /\ StoredBag # << >>
             /\ StoredBag[1].bag = detail'.character[1].bag]_vars

(* C9 amended: the bag is appended to as stated; the Store's Character at   *)
(* the selected position holds the same bag when the write succeeds, and    *)
(* the Store is left as it was when the write fails.                        *)
C9_AddItemAppends ==
    [][\A f \in ItemForms, now \in Instants :
          (HandleAddItem(f, now) /\ ValidItem(f))
          => /\ Appended(f)
             /\ IF failures' = failures
                THEN /\ StoredBag # << >>
                     /\ StoredBag[1].bag = detail'.character[1].bag
                ELSE store' = store]_vars

(* C9 witness: a Character stored without a bag holds two Items after two   *)
(* valid addItem, and the Store holds the same.                             *)
C9_Witness ==
    /\ detail.state = "Ready"
    /\ message = "has been added to the bag!"
    /\ detail.character[1].name = <<"A", "m">>
    /\ Len(BagOf(detail.character[1])) = 2
    /\ Denoted(detail.characterIndex, LoadCharacters(store)) = detail.character

(* C10: after every completed addItem and removeItem the item count of the  *)
(* bag view and the item count of the character summary both equal the      *)
(* length of the bag.                                                       *)
C10_BothViewsRefreshed ==
    [][(message' \in {"has been added to the bag!", "has been removed from the bag."}
        /\ (\/ \E f \in ItemForms, now \in Instants : HandleAddItem(f, now)
            \/ \E index \in 0..(MaxBag - 1), ok \in BOOLEAN : RemoveItem(index, TRUE, ok)))
       => /\ view'.itemCount = Len(BagOf(detail'.character[1]))
          /\ view'.infoItems = Len(BagOf(detail'.character[1]))]_vars

(* Messages saveCharacters shows when the write throws *)
SaveErrors == {"Error saving characters!", "Error saving changes!"}

(* C11: whenever the Store write of a handler fails, the message visible    *)
(* when the handler finishes is the error message reporting the failed      *)
(* save.                                                                    *)
C11_WriteFailureSurfaced ==
    [][failures' # failures => message' \in SaveErrors]_vars

(* C12: whenever the Store write of a handler fails, the handler does not   *)
(* crash, the Store keeps exactly its previous content, the controller      *)
(* keeps the mutation just made in memory, and it stays on its page able to *)
(* take further operations (the detail controller stays Ready); a later    *)
(* write that succeeds stores that in-memory copy.                          *)
InMemory == IF page = "gallery" THEN gallery.characters ELSE detail.characters

C12_WriteFailureKeepsMemory ==
    [][/\ (failures' = failures /\ store' # store)
            => LoadCharacters(store') = InMemory'
       /\ (failures' # failures)
            => /\ store' = store
               /\ ~uncaught'
               /\ page' = page
               /\ page = "gallery"
                     => gallery'.characters # gallery.characters
               /\ page = "detail"
                     => /\ detail'.state = "Ready"
                        /\ detail'.characters # detail.characters
                        /\ detail'.character
                             = Denoted(detail'.characterIndex, detail'.characters)]_vars

(* C12 witness: a write failed and left the gallery ahead of the Store; a   *)
(* later delete was applied to that in-memory copy and written, so the      *)
(* Store holds only the Character whose own write had failed.               *)
C12_Witness ==
    /\ failures > 0
    /\ page = "gallery"
    /\ message = "Character deleted."
    /\ Len(gallery.characters) = 1
    /\ gallery.characters[1].name # <<"A", "m">>
    /\ store = Stringify(gallery.characters)
    /\ signal = << >>

(* Position in the bag of the Item the last addItem inserted *)
InsertedAt == Len(BagOf(detail.character[1])) - 1

(* C13 as stated: after an accepted addItem, removing (with confirmation)   *)
(* the Item at the index where it was inserted returns the bag to its prior *)
(* content, order and length, in memory and in the Store.                   *)
C13_AddThenRemoveRestores ==
    [][\A ok \in BOOLEAN :
          (prior # << >> /\ RemoveItem(InsertedAt, TRUE, ok))
          => /\ BagOf(detail'.character[1]) = prior[1]
             /\ StoredBag # << >>
             /\ BagOf(StoredBag[1]) = prior[1]]_vars

(* C13 amended: the bag in memory returns to its prior content; the bag in  *)
(* the Store does when the write of the removal succeeds, and the Store is  *)
(* left as it was when that write fails.                                    *)
C13_AddThenRemoveRestoresMemory ==
    [][\A ok \in BOOLEAN :
          (prior # << >> /\ RemoveItem(InsertedAt, TRUE, ok))
          => /\ BagOf(detail'.character[1]) = prior[1]
             /\ IF failures' = failures
                THEN StoredBag # << >> /\ BagOf(StoredBag[1]) = prior[1]
                ELSE store' = store]_vars

(* C13 witness: an Item was just added to a bag that held another one, in   *)
(* memory and in the Store; it stands at the end and can be removed.        *)
C13_Witness ==
    /\ detail.state = "Ready"
    /\ prior # << >>
    /\ Len(prior[1]) = 1
    /\ InsertedAt = 1
    /\ LoadCharacters(store) = detail.characters

(* C14 as stated: after a confirmed deleteAll the in-memory collection is   *)
(* empty and a load of the Store returns the empty sequence; a declined     *)
(* deleteAll leaves the collection and the Store unchanged.                 *)
C14_DeleteAllEmptiesStore ==
    [][\A confirmed \in BOOLEAN, ok \in BOOLEAN :
          ClearAllCharacters(confirmed, ok)
          => IF confirmed
             THEN /\ gallery'.characters = << >>
                  /\ LoadCharacters(store') = << >>
             ELSE gallery' = gallery /\ store' = store]_vars

(* C14 amended: after a confirmed deleteAll the in-memory collection is     *)
(* empty; a load of the Store returns the empty sequence when the write     *)
(* succeeded, and the Store is left as it was when the write failed.        *)
C14_DeleteAllEmptiesMemory ==
    [][\A confirmed \in BOOLEAN, ok \in BOOLEAN :
          ClearAllCharacters(confirmed, ok)
          => IF confirmed
             THEN /\ gallery'.characters = << >>
                  /\ gallery'.loaded = "array"
                  /\ IF failures' = failures
                     THEN LoadCharacters(store') = << >> /\ Loaded(store') = "array"
                     ELSE store' = store
             ELSE gallery' = gallery /\ store' = store]_vars

(* C14 witness: a collection of two Characters was cleared after its second *)
(* position had been selected: memory and Store are empty while the signal  *)
(* still names that position.                                               *)
C14_Witness ==
    /\ page = "gallery"
    /\ message = "All characters have been deleted."
    /\ gallery.characters = << >>
    /\ store = Stringify(<< >>)
    /\ signal = << <<"1">> >>

(* What the claim has load return for a slot *)
Persisted(slot) == IF slot.kind = "json" THEN slot.val ELSE << >>

(* C15: load, in both controllers, leaves the controller with a sequence:   *)
(* the persisted collection when the slot holds one, the empty sequence     *)
(* when the slot is absent or holds anything else; it never fails.          *)
C15_LoadReturnsSequence ==
    [][/\ (OpenGallery \/ RedirectFires)
           => /\ gallery'.loaded = "array"
              /\ gallery'.characters = Persisted(store)
              /\ ~uncaught'
       /\ (InitializeDetail /\ signal # << >>)
           => /\ detail'.state \in {"Ready", "NotFound"}
              /\ detail'.characters = Persisted(store)]_vars

(* C16: the detail controller follows Loading -> Ready or Loading ->        *)
(* NotFound and nothing else: initialize ends in one of the two; in         *)
(* NotFound nothing changes the controller or the Store until the gallery   *)
(* is loaded, and the redirect stays armed; in Ready every step that stays  *)
(* on the page leaves it Ready.                                             *)
C16_DetailStateMachine ==
    /\ [][InitializeDetail => detail'.state \in {"Ready", "NotFound"}]_vars
    /\ [][detail.state = "NotFound"
            => \/ page' = "gallery"
               \/ detail' = detail /\ store' = store /\ redirect']_vars
    /\ [][(detail.state = "Ready" /\ page' = "detail")
            => detail'.state = "Ready"]_vars
    /\ [](detail.state = "NotFound" => redirect)
    /\ [](page = "detail" => detail.state \in {"Loading", "Ready", "NotFound"})

(* s with the element at 0-based position index left out *)
Without(s, index) ==
    [i \in 1..(Len(s) - 1) |-> s[IF i <= index THEN i ELSE i + 1]]

(* C17 as stated: a confirmed delete removes exactly the Character at the   *)
(* position from the in-memory collection and from the Store, the others    *)
(* keeping content and order; a declined delete changes neither collection, *)
(* Store nor signal.                                                        *)
C17_DeleteRemovesOneEverywhere ==
    [][\A index \in 0..(MaxChars - 1), confirmed \in BOOLEAN, ok \in BOOLEAN :
          DeleteCharacter(index, confirmed, ok)
          => IF confirmed
             THEN /\ gallery'.characters = Without(gallery.characters, index)
                  /\ LoadCharacters(store') = Without(gallery.characters, index)
             ELSE gallery' = gallery /\ store' = store /\ signal' = signal]_vars

(* C17 amended: the in-memory collection loses exactly that Character; the  *)
(* Store holds the same collection when the write succeeds and is left as   *)
(* it was when the write fails.                                             *)
C17_DeleteRemovesOne ==
    [][\A index \in 0..(MaxChars - 1), confirmed \in BOOLEAN, ok \in BOOLEAN :
          DeleteCharacter(index, confirmed, ok)
          => IF confirmed
             THEN /\ gallery'.characters = Without(gallery.characters, index)
                  /\ Len(gallery'.characters) = Len(gallery.characters) - 1
                  /\ IF failures' = failures
                     THEN LoadCharacters(store') = Without(gallery.characters, index)
                     ELSE store' = store
             ELSE gallery' = gallery /\ store' = store /\ signal' = signal]_vars

(* C17 witness: the first of two Characters was deleted; the second, with   *)
(* the Items of its bag, is what memory and Store now hold.                 *)
C17_Witness ==
    /\ page = "gallery"
    /\ message = "Character deleted."
    /\ Len(gallery.characters) = 1
    /\ gallery.characters[1].name # <<"A", "m">>
    /\ Len(BagOf(gallery.characters[1])) > 0
    /\ LoadCharacters(store) = gallery.characters

SaveMessages ==
    { "has been created successfully!", "Character deleted.",
      "All characters have been deleted.", "has been added to the bag!",
      "has been removed from the bag." }

(* C18: with two tabs on one Store, a page that changes its collection and *)
(* whose write succeeds leaves the Store equal to its own in-memory        *)
(* collection, whatever the other tab wrote since this page loaded; the    *)
(* Store changes in no other way; the page reports its usual success       *)
(* message and no error, and the other tab is told nothing.                *)
C18_LastWriteWins ==
    /\ [][(/\ InMemory' # InMemory
           /\ message' \in SaveMessages
           /\ tab2' = tab2
           /\ failures' = failures)
          => (/\ store'.kind = "json"
              /\ LoadCharacters(store') = InMemory'
              /\ message' \notin SaveErrors
              /\ ~uncaught')]_vars
    /\ [][store' # store
          => (/\ LoadCharacters(store') = InMemory'
              /\ tab2' = tab2
              /\ page' = page)]_vars

(* C18 witness: the other tab, a gallery, deleted the only Character and   *)
(* wrote the empty collection; this tab, a detail page loaded before that, *)
(* then added an Item and wrote its own collection: the deleted Character  *)
(* is in the Store again and both tabs show their success message.         *)
C18_Witness ==
    /\ tab2 # << >>
    /\ failures = 0
    /\ tab2[1].page = "gallery"
    /\ tab2[1].message = "Character deleted."
    /\ tab2[1].gallery.characters = << >>
    /\ page = "detail"
    /\ message = "has been added to the bag!"
    /\ LoadCharacters(store) = detail.characters
    /\ Len(detail.characters) = 1
    /\ detail.characters[1].name = <<"A", "m">>

NonBag(c) ==
    [id |-> c.id, type |-> c.type, name |-> c.name, description |-> c.description,
     imageUrl |-> c.imageUrl, createdAt |-> c.createdAt]

(* after differs from before at most in the bag of the Character at the    *)
(* 0-based position                                                        *)
OnlyBagChanged(before, after, position) ==
    /\ Len(after) = Len(before)
    /\ \A i \in DOMAIN before :
          IF i = position + 1
          THEN NonBag(after[i]) = NonBag(before[i])
          ELSE after[i] = before[i]

(* C19: a step of the detail page that changes its collection (an addItem  *)
(* accepted, a removeItem confirmed) changes only the bag of the Character *)
(* at the selected position: the other Characters, their number and order  *)
(* and the selected Character's other fields are as before, in memory and  *)
(* in the Store when it is written; the selection itself does not move.    *)
C19_OnlySelectedBagChanges ==
    [][(page = "detail" /\ detail.state = "Ready" /\ page' = "detail")
         => LET position == ParseInt(detail.characterIndex[1])
            IN  /\ detail'.characterIndex = detail.characterIndex
                /\ OnlyBagChanged(detail.characters, detail'.characters, position)
                /\ NonBag(detail'.character[1]) = NonBag(detail.character[1])
                /\ detail'.characters[position + 1] = detail'.character[1]
                /\ (store' # store
                     => OnlyBagChanged(detail.characters, LoadCharacters(store'),
                                       position))]_vars

(* C19 witness: the second of two Characters is selected and an Item was   *)
(* added to its bag; the first Character is as it was loaded, in memory    *)
(* and in the Store.                                                       *)
C19_Witness ==
    /\ page = "detail"
    /\ detail.state = "Ready"
    /\ detail.characterIndex = <<ToString(1)>>
    /\ message = "has been added to the bag!"
    /\ Len(detail.characters) = 2
    /\ Len(BagOf(detail.characters[2])) = 1
    /\ detail.characters[1] = LegacyCharacter
    /\ LoadCharacters(store) = detail.characters

(* C20 as stated: a confirmed removeItem at a valid index removes exactly  *)
(* that Item, the others keeping their order, and the Store's Character at *)
(* the selected position then holds the same bag; a declined one changes   *)
(* neither bag nor Store.                                                  *)
C20_RemoveItemRemovesAndStores ==
    [][\A index \in 0..(MaxBag - 1), confirmed \in BOOLEAN, ok \in BOOLEAN :
          RemoveItem(index, confirmed, ok)
          => IF confirmed
             THEN /\ BagOf(detail'.character[1])
                        = Without(BagOf(detail.character[1]), index)
                  /\ StoredBag # << >>
                  /\ BagOf(StoredBag[1]) = Without(BagOf(detail.character[1]), index)
             ELSE detail' = detail /\ store' = store]_vars

(* C20 amended: the bag loses exactly that Item as stated; the Store holds *)
(* the same bag when the write succeeds and is left as it was when the     *)
(* write fails.                                                            *)
C20_RemoveItemRemoves ==
    [][\A index \in 0..(MaxBag - 1), confirmed \in BOOLEAN, ok \in BOOLEAN :
          RemoveItem(index, confirmed, ok)
          => IF confirmed
             THEN /\ BagOf(detail'.character[1])
                        = Without(BagOf(detail.character[1]), index)
                  /\ Len(BagOf(detail'.character[1]))
                        = Len(BagOf(detail.character[1])) - 1
                  /\ IF failures' = failures
                     THEN /\ StoredBag # << >>
                          /\ BagOf(StoredBag[1])
                                = Without(BagOf(detail.character[1]), index)
                     ELSE store' = store
             ELSE detail' = detail /\ store' = store]_vars

(* C20 witness: one Item of a bag has been removed, another is left, and   *)
(* both parts of the page and the Store show the bag of one.               *)
C20_Witness ==
    /\ page = "detail"
    /\ detail.state = "Ready"
    /\ message = "has been removed from the bag."
    /\ Len(BagOf(detail.character[1])) = 1
    /\ view.itemCount = 1
    /\ view.infoItems = 1
    /\ Denoted(detail.characterIndex, LoadCharacters(store)) = detail.character

(* The controller of the page has completed its last operation: the       *)
(* gallery always, the detail page once initializeDetail has run.          *)
Completed == page = "detail" => detail.state # "Loading"

(* C21: in a flow where no Store write has failed, after every completed   *)
(* operation of the page's controller (initialize included) the collection *)
(* read from the Store equals the controller's in-memory collection.       *)
C21_StoreEqualsMemory ==
    (failures = 0 /\ Completed) => LoadCharacters(store) = InMemory

(* C21 apart from the detail page opened without a selection, whose       *)
(* initializeDetail returns before loadCharacters: the equality holds.     *)
C21_StoreEqualsMemoryOnceLoaded ==
    (failures = 0 /\ Completed /\ ~(page = "detail" /\ detail.characterIndex = << >>))
        => LoadCharacters(store) = InMemory

(* The index designates no Item of the page's Character: none resolved,   *)
(* no bag, a negative index or one at or past the end of the bag.          *)
DesignatesNoItem(index) ==
    \/ detail.character = << >>
    \/ index < 0
    \/ index >= Len(BagOf(detail.character[1]))

(* C22: removeItem with an index that designates no Item asks for no       *)
(* confirmation and changes nothing: the Character and its bag, the        *)
(* in-memory collection, the Store and what the page shows of them stay as *)
(* they were; the failure is caught, 'Error removing item!' is shown, and  *)
(* the controller stays on its page in the state it had.                   *)
C22_BadIndexChangesNothing ==
    [][\A index \in (-1)..MaxBag, confirmed \in BOOLEAN, ok \in BOOLEAN :
          (RemoveItem(index, confirmed, ok) /\ DesignatesNoItem(index))
          => /\ ~confirmed
             /\ detail' = detail
             /\ store' = store
             /\ failures' = failures
             /\ view' = view
             /\ message' = "Error removing item!"
             /\ ~uncaught'
             /\ page' = page
             /\ redirect' = redirect]_vars

(* C22 witness: removeItem was called with an index outside a bag of one   *)
(* Item; the error is shown, the page is Ready and the bag still holds its *)
(* Item, in memory and in the Store.                                       *)
C22_Witness ==
    /\ page = "detail"
    /\ detail.state = "Ready"
    /\ message = "Error removing item!"
    /\ ~uncaught
    /\ Len(BagOf(detail.character[1])) = 1
    /\ view.itemCount = 1
    /\ LoadCharacters(store) = detail.characters

=============================================================================
